---- MODULE Spec2Model ----
(***************************************************************************)
(* Model of orders/views.py (OrderViewSet) and orders/models.py of         *)
(* order_api.                                                              *)
(*                                                                         *)
(* The database holds the Product rows (stock, price), the Order rows, the *)
(* OrderItem rows and the InventoryMovement log.  Every request is served  *)
(* by a worker p: it runs one handler of OrderViewSet, statement by        *)
(* statement.  Statements of different workers interleave.                 *)
(*                                                                         *)
(* Storage semantics (READ COMMITTED with row locks, the semantics under   *)
(* which select_for_update is meaningful):                                 *)
(*   - select_for_update() on a Product row and UPDATE of a Product row    *)
(*     take the row lock of that product, held until the transaction ends; *)
(*     a statement that needs a lock held by another worker is not enabled *)
(*     (it waits);                                                         *)
(*   - the writes of a transaction become visible to the other workers     *)
(*     when it commits, all at once; a plain read sees committed data;     *)
(*   - UPDATE ... SET x = F("x") + d is evaluated on the committed row     *)
(*     under the row lock, so it is an atomic increment;                   *)
(*   - the Order row is the last row every handler writes, immediately     *)
(*     before its commit, so its row lock is never held across steps and   *)
(*     is not represented.                                                 *)
(* Money is counted in integral units.                                     *)
(***************************************************************************)
EXTENDS Integers, Sequences, FiniteSets, TLC

\* ---------------------------------------------------------------- bounds
\* Largest quantity a request carries.
MaxQty == 2
\* Number of requests served in one behaviour.
MaxReqs == 2

\* ------------------------------------------------------------- universe
Products == {"A", "B"}
Orders == {1, 2}
Procs == {"w1", "w2"}
NoProc == "none"

\* Order.STATUS_CHOICES
PENDING == "pendiente"
COMPLETED == "completada"
CANCELED == "cancelada"

\* Order.CHANGE_STATUS
CHANGE_UPDATE == "update"
CHANGE_COMPLETED == "completed"
CHANGE_CANCELED == "canceled"
CHANGE_DELETE == "delete"
CHANGE_CREATED == "created"

\* The concrete, non-pk fields Order declares: save(update_fields=...) raises
\* ValueError when asked for a field that is not one of them.
OrderFields ==
    {"customer_name", "total", "status", "created_at", "last_change_at", "last_change_type"}

\* Current catalogue price of a product, and the price items created before
\* the last price change were snapshotted at.
ProductPrice == [p \in Products |-> IF p = "A" THEN 3 ELSE 5]
OldPrice == [p \in Products |-> IF p = "A" THEN 2 ELSE 4]

\* The stock the products start with.
InitStock == [p \in Products |-> 2]

\* The quantities <<of A, of B>> order 1 may hold before the first request (0:
\* no item): none, one line, two lines, lines above the stock.
InitQuantities == {<<0, 0>>, <<1, 0>>, <<2, 1>>, <<1, 3>>, <<3, 3>>}

VARIABLES
    stock,      \* Product.stock, per product
    price,      \* Product.price, per product
    orders,     \* Order rows: status, total, created_at, last_change_at, last_change_type
    items,      \* OrderItem rows in primary-key order: id, order, product, quantity, price
    item_seq,   \* the next value of OrderItem.id (AutoField)
    movements,  \* InventoryMovement rows in insertion order
    now,        \* timezone.now()
    lock,       \* row lock of each Product row: the worker holding it, or NoProc
    pc,         \* per worker: the statement it is at
    args,       \* per worker: the request (handler, order pk, product, quantity)
    local,      \* per worker: the product and item rows its transaction has read
    todo,       \* per worker: items the third loop of complete has still to process
    pend,       \* per worker: stock updates and movements written, not yet committed
    resp,       \* per worker: the Response of its last request
    nreq,       \* requests started so far
    log,        \* history: the requests answered so far, with their responses
    initial     \* history: the database before the first request

db == <<stock, price, orders, items, item_seq, movements>>
vars == <<db, now, lock, pc, args, local, todo, pend, resp, nreq, log, initial>>

\* ---------------------------------------------------------------- helpers
Min(a, b) == IF a <= b THEN a ELSE b

\* order.items.all(): the OrderItem rows of an order, in primary-key order
ItemsOf(its, o) == SelectSeq(its, LAMBDA r : r.order = o)

\* the OrderItem rows of an (order, product) pair
ItemsFor(its, o, p) == SelectSeq(its, LAMBDA r : r.order = o /\ r.product = p)

NoItem == [id |-> 0, order |-> 0, product |-> "", quantity |-> 0, price |-> 0]

\* OrderItem.objects.select_for_update().filter(order=order, product=product).first()
select_item(its, o, p) ==
    IF ItemsFor(its, o, p) = <<>> THEN NoItem ELSE Head(ItemsFor(its, o, p))

\* OrderItem.objects.filter(pk=item.pk).update(quantity=F("quantity") + d)
update_quantity(its, id, d) ==
    [i \in 1..Len(its) |-> IF its[i].id = id THEN [its[i] EXCEPT !.quantity = @ + d] ELSE its[i]]

\* item.delete()
delete_item(its, id) == SelectSeq(its, LAMBDA r : r.id # id)

\* OrderItem.total summed over the items of an order
RECURSIVE SumLines(_)
SumLines(its) ==
    IF its = <<>> THEN 0
    ELSE Head(its).quantity * Head(its).price + SumLines(Tail(its))

\* the units of a product the items of one order hold
RECURSIVE SumQuantity(_)
SumQuantity(its) ==
    IF its = <<>> THEN 0 ELSE Head(its).quantity + SumQuantity(Tail(its))

Movement(p, q, mtype, reason, t) ==
    [product |-> p, quantity |-> q, movement_type |-> mtype, reason |-> reason, timestamp |-> t]

Response(code, detail) == [code |-> code, detail |-> detail, items |-> <<>>, available |-> -1]
NoResponse == Response(0, "")

Request(op, o, p, q) == [op |-> op, order |-> o, product |-> p, quantity |-> q]
NoRequest == Request("", 0, "", 0)

NoLocal == [stock |-> 0, price |-> 0, item |-> NoItem]

\* ------------------------------------------------------------------- Init
\* An item that exists before the first request (created with its order, with
\* no stock movement), snapshotted at the price of that time.
InitItem(id, o, p, q) ==
    [id |-> id, order |-> o, product |-> p, quantity |-> q, price |-> OldPrice[p]]

InitItems(qa, qb) ==
    (IF qa > 0 THEN <<InitItem(1, 1, "A", qa)>> ELSE <<>>)
        \o (IF qb > 0 THEN <<InitItem(2, 1, "B", qb)>> ELSE <<>>)

\* A freshly created Order row (the field defaults of models.Order) whose
\* total is the sum of the lines it was created with.
NewOrder(its, o, t) ==
    [status |-> PENDING, total |-> SumLines(ItemsOf(its, o)), created_at |-> t,
     last_change_at |-> t, last_change_type |-> CHANGE_CREATED]

\* The state before the first request: the database holds the items its (the
\* next OrderItem id is seq) and the movements mvs; the orders were created at
\* time 1, no request is in flight.
InitFrom(its, seq, mvs) ==
    /\ stock = InitStock
    /\ price = ProductPrice
    /\ items = its
    /\ item_seq = seq
    /\ orders = [o \in Orders |-> NewOrder(its, o, 1)]
    /\ movements = mvs
    /\ now = 2
    /\ lock = [p \in Products |-> NoProc]
    /\ pc = [w \in Procs |-> "idle"]
    /\ args = [w \in Procs |-> NoRequest]
    /\ local = [w \in Procs |-> NoLocal]
    /\ todo = [w \in Procs |-> <<>>]
    /\ pend = [w \in Procs |-> <<>>]
    /\ resp = [w \in Procs |-> NoResponse]
    /\ nreq = 0
    /\ log = <<>>
    /\ initial = [stock |-> stock, orders |-> orders, items |-> items]

InitWith(its) == InitFrom(its, 3, <<>>)

Init == \E q \in InitQuantities : InitWith(InitItems(q[1], q[2]))

\* Outflow/"sale" movements recorded before the orders were created (at time
\* 0): for A only, or for A and B.
SoldBefore ==
    {<<Movement("A", 1, "salida", "venta", 0)>>,
     <<Movement("A", 1, "salida", "venta", 0), Movement("B", 1, "salida", "venta", 0)>>}

InitSold ==
    \E q \in InitQuantities, mvs \in SoldBefore : InitFrom(InitItems(q[1], q[2]), 3, mvs)

\* Two orders that hold the same two products, added in opposite order: the
\* items of order 1 are (A, B) in primary-key order, those of order 2 (B, A).
CrossItems ==
    <<InitItem(1, 1, "A", 1), InitItem(2, 1, "B", 1),
      InitItem(3, 2, "B", 1), InitItem(4, 2, "A", 1)>>

InitCross == InitFrom(CrossItems, Len(CrossItems) + 1, <<>>)

\* ------------------------------------------------------- request dispatch
Handlers == {"complete", "add_item", "remove_item", "cancel", "destroy", "perform_update"}

\* The requests a client can send: the item handlers carry a product and a
\* quantity > 0 (the payload serializers reject anything else).
Requests ==
    {Request(op, o, p, q) : op \in {"add_item", "remove_item"}, o \in Orders,
                            p \in Products, q \in 1..MaxQty}
    \cup {Request(op, o, "", 0) : op \in Handlers \ {"add_item", "remove_item"}, o \in Orders}

\* The workers are interchangeable: the next request goes to the first idle one.
FirstIdle == IF pc["w1"] = "idle" THEN "w1" ELSE "w2"

\* A worker takes the next request and enters its handler.
Start(w) ==
    /\ pc[w] = "idle"
    /\ w = FirstIdle
    /\ nreq < MaxReqs
    /\ \E r \in Requests :
        /\ args' = [args EXCEPT ![w] = r]
        /\ pc' = [pc EXCEPT ![w] = r.op]
    /\ resp' = [resp EXCEPT ![w] = NoResponse]
    /\ nreq' = nreq + 1
    /\ UNCHANGED <<db, now, lock, local, todo, pend, log, initial>>

\* The handler returns: the transaction (if any) has ended, the worker holds
\* no lock and is idle again.
Return(w, r) ==
    /\ pc' = [pc EXCEPT ![w] = "idle"]
    /\ resp' = [resp EXCEPT ![w] = r]
    /\ lock' = [p \in Products |-> IF lock[p] = w THEN NoProc ELSE lock[p]]
    /\ local' = [local EXCEPT ![w] = NoLocal]
    /\ todo' = [todo EXCEPT ![w] = <<>>]
    /\ pend' = [pend EXCEPT ![w] = <<>>]
    /\ log' = Append(log, [worker |-> w, request |-> args[w], response |-> r])
    /\ UNCHANGED <<args, nreq, initial>>

\* The handler goes on to its next statement.
Goto(w, label) ==
    /\ pc' = [pc EXCEPT ![w] = label]
    /\ UNCHANGED <<args, resp, nreq, log, initial>>

Closed(o) == orders[o].status \in {COMPLETED, CANCELED}

\* Variant: statements do not wait for the row lock.
lock_ignored(lk, w, p) == TRUE

\* a statement that needs the row lock of product p can run
lock_free(lk, w, p) == lk[p] \in {NoProc, w}

\* order.last_change_at = timezone.now(); order.last_change_type = ct;
\* order.save(update_fields=[..., "last_change_at", "last_change_type"])
Touch(ords, o, ct, t) ==
    [ords EXCEPT ![o].last_change_at = t, ![o].last_change_type = ct]

\* ---------------------------------------------------------------- add_item
\* Variant: the line is always charged at the product's current price.
add_unit_price_current(item, product_price) == product_price

\* unit_price = item.price if item else product.price
add_unit_price(item, product_price) ==
    IF item # NoItem THEN item.price ELSE product_price

\* Variant: merging into an item snapshots the product's current price anew.
add_or_merge_repriced(its, item, id, o, p, q, unit_price) ==
    IF item # NoItem
    THEN [i \in 1..Len(its) |->
            IF its[i].id = item.id
            THEN [its[i] EXCEPT !.quantity = @ + q, !.price = price[p]]
            ELSE its[i]]
    ELSE Append(its, [id |-> id, order |-> o, product |-> p, quantity |-> q, price |-> unit_price])

\* if item: quantity = F("quantity") + qty  else: OrderItem.objects.create(...)
add_or_merge(its, item, id, o, p, q, unit_price) ==
    IF item # NoItem
    THEN update_quantity(its, item.id, q)
    ELSE Append(its, [id |-> id, order |-> o, product |-> p, quantity |-> q, price |-> unit_price])

\* get_object() and the status check, before the transaction
add_item_get(w) ==
    /\ pc[w] = "add_item"
    /\ IF Closed(args[w].order)
       THEN Return(w, Response(400, "You can't modify a completed/canceled order."))
       ELSE Goto(w, "add_lock") /\ UNCHANGED <<lock, local, todo, pend>>
    /\ UNCHANGED <<db, now>>

\* Product.objects.select_for_update().get(pk=product.pk) and the stock check
add_item_lock(w) ==
    LET p == args[w].product IN
    /\ pc[w] = "add_lock"
    /\ lock_free(lock, w, p)
    /\ IF stock[p] < args[w].quantity
       THEN Return(w, [Response(400, "Insufficient stock") EXCEPT !.available = stock[p]])
       ELSE /\ lock' = [lock EXCEPT ![p] = w]
            /\ local' = [local EXCEPT ![w].stock = stock[p], ![w].price = price[p]]
            /\ Goto(w, "add_select")
            /\ UNCHANGED <<todo, pend>>
    /\ UNCHANGED <<db, now>>

\* OrderItem.objects.select_for_update().filter(order=order, product=product).first()
add_item_select(w) ==
    /\ pc[w] = "add_select"
    /\ local' = [local EXCEPT ![w].item = select_item(items, args[w].order, args[w].product)]
    /\ Goto(w, "add_write")
    /\ UNCHANGED <<db, now, lock, todo, pend>>

\* the writes of the transaction and its commit
add_item_write(w) ==
    LET o == args[w].order
        p == args[w].product
        qty == args[w].quantity
        unit_price == add_unit_price(local[w].item, local[w].price)
        addition == qty * unit_price
    IN
    /\ pc[w] = "add_write"
    /\ items' = add_or_merge(items, local[w].item, item_seq, o, p, qty, unit_price)
    /\ item_seq' = IF local[w].item # NoItem THEN item_seq ELSE item_seq + 1
    /\ stock' = [stock EXCEPT ![p] = @ - qty]
    /\ movements' = Append(movements, Movement(p, qty, "salida", "venta", now))
    /\ orders' = Touch([orders EXCEPT ![o].total = @ + addition], o, CHANGE_UPDATE, now)
    /\ now' = now + 1
    /\ Return(w, Response(200, "OK"))
    /\ UNCHANGED price

\* ------------------------------------------------------------- remove_item
\* Variant: the requested quantity is removed, whatever the item holds.
remove_units_requested(dec_qty, held) == dec_qty

\* remove_units = min(dec_qty, item.quantity)
remove_units(dec_qty, held) == Min(dec_qty, held)

\* Variant: the line is decreased in place, also when all its units go.
decrease_in_place(its, item, units) == update_quantity(its, item.id, 0 - units)

\* item.delete() when the whole line goes, else quantity = F("quantity") - remove_units
decrease(its, item, units) ==
    IF units = item.quantity
    THEN delete_item(its, item.id)
    ELSE update_quantity(its, item.id, 0 - units)

\* Variant: the whole line is refunded, whatever is removed.
line_total_whole(item, units) == item.quantity * item.price

\* line_total: Decimal(item.quantity) * unit_price or Decimal(remove_units) * unit_price
line_total(item, units) ==
    IF units = item.quantity THEN item.quantity * item.price ELSE units * item.price

remove_item_get(w) ==
    /\ pc[w] = "remove_item"
    /\ IF Closed(args[w].order)
       THEN Return(w, Response(400, "You can't modify a completed/canceled order."))
       ELSE Goto(w, "remove_lock") /\ UNCHANGED <<lock, local, todo, pend>>
    /\ UNCHANGED <<db, now>>

\* Product.objects.select_for_update().get(pk=product.pk)
remove_item_lock(w) ==
    LET p == args[w].product IN
    /\ pc[w] = "remove_lock"
    /\ lock_free(lock, w, p)
    /\ lock' = [lock EXCEPT ![p] = w]
    /\ local' = [local EXCEPT ![w].stock = stock[p], ![w].price = price[p]]
    /\ Goto(w, "remove_select")
    /\ UNCHANGED <<db, now, todo, pend>>

\* OrderItem.objects.select_for_update().filter(...).first() and "if not item"
remove_item_select(w) ==
    LET item == select_item(items, args[w].order, args[w].product) IN
    /\ pc[w] = "remove_select"
    /\ IF item = NoItem
       THEN Return(w, Response(400, "Product is not in this order."))
       ELSE /\ local' = [local EXCEPT ![w].item = item]
            /\ Goto(w, "remove_write")
            /\ UNCHANGED <<lock, todo, pend>>
    /\ UNCHANGED <<db, now>>

\* the writes of the transaction and its commit
remove_item_write(w) ==
    LET o == args[w].order
        p == args[w].product
        item == local[w].item
        units == remove_units(args[w].quantity, item.quantity)
    IN
    /\ pc[w] = "remove_write"
    /\ stock' = [stock EXCEPT ![p] = @ + units]
    /\ movements' = Append(movements, Movement(p, units, "entrada", "ajuste", now))
    /\ items' = decrease(items, item, units)
    /\ orders' = Touch([orders EXCEPT ![o].total = @ - line_total(item, units)],
                       o, CHANGE_UPDATE, now)
    /\ now' = now + 1
    /\ Return(w, Response(200, "OK"))
    /\ UNCHANGED <<price, item_seq>>

\* ---------------------------------------------------------------- complete
\* Variant: the query looks for Inflow movements.
exists_mv_inflow(mvs, p, since) ==
    \E i \in 1..Len(mvs) :
        /\ mvs[i].product = p
        /\ mvs[i].movement_type = "entrada"
        /\ mvs[i].timestamp >= since

\* InventoryMovement.objects.filter(product=..., movement_type="salida",
\*     reason="venta", timestamp__gte=order.created_at).exists()
exists_mv(mvs, p, since) ==
    \E i \in 1..Len(mvs) :
        /\ mvs[i].product = p
        /\ mvs[i].movement_type = "salida"
        /\ mvs[i].reason = "venta"
        /\ mvs[i].timestamp >= since

\* Variant: the first loop is satisfied by one item that has such a movement.
already_applied_any(its, mvs, o, since) ==
    \E i \in 1..Len(ItemsOf(its, o)) : exists_mv(mvs, ItemsOf(its, o)[i].product, since)

\* first loop: already_applied stays True unless an item has no such movement
already_applied(its, mvs, o, since) ==
    \A i \in 1..Len(ItemsOf(its, o)) : exists_mv(mvs, ItemsOf(its, o)[i].product, since)

\* Variant: the second loop stops at the first item that is short of stock.
insufficient_first(its, stk) ==
    IF \E i \in 1..Len(its) : stk[its[i].product] < its[i].quantity
    THEN LET i == CHOOSE i \in 1..Len(its) :
                    /\ stk[its[i].product] < its[i].quantity
                    /\ \A j \in 1..(i - 1) : stk[its[j].product] >= its[j].quantity
         IN <<[product_id |-> its[i].product, requested |-> its[i].quantity,
               available |-> stk[its[i].product]]>>
    ELSE <<>>

\* second loop: one entry per item whose product's stock is below its quantity
RECURSIVE insufficient(_, _)
insufficient(its, stk) ==
    IF its = <<>> THEN <<>>
    ELSE (IF stk[Head(its).product] < Head(its).quantity
          THEN <<[product_id |-> Head(its).product, requested |-> Head(its).quantity,
                  available |-> stk[Head(its).product]]>>
          ELSE <<>>) \o insufficient(Tail(its), stk)

\* Variant: the stock updates of the third loop are lost.
apply_stock_lost(stk, pnd) == stk

\* the stock a committed transaction leaves: every pending
\* stock = F("stock") - quantity applied
RECURSIVE apply_stock(_, _)
apply_stock(stk, pnd) ==
    IF pnd = <<>> THEN stk
    ELSE apply_stock([stk EXCEPT ![Head(pnd).product] = @ - Head(pnd).quantity], Tail(pnd))

\* Variant: the handler does not look at the order's status.
complete_get_unchecked(w) ==
    /\ pc[w] = "complete"
    /\ Goto(w, "complete_applied")
    /\ UNCHANGED <<db, now, lock, local, todo, pend>>

\* get_object() and the two status checks, before the transaction
complete_get(w) ==
    /\ pc[w] = "complete"
    /\ IF orders[args[w].order].status = COMPLETED
       THEN Return(w, Response(400, "Order is already completed."))
       ELSE IF orders[args[w].order].status = CANCELED
       THEN Return(w, Response(400, "Canceled orders cannot be completed."))
       ELSE Goto(w, "complete_applied") /\ UNCHANGED <<lock, local, todo, pend>>
    /\ UNCHANGED <<db, now>>

\* first loop of the transaction
complete_applied(w) ==
    /\ pc[w] = "complete_applied"
    /\ IF already_applied(items, movements, args[w].order, orders[args[w].order].created_at)
       THEN Goto(w, "complete_save")
       ELSE Goto(w, "complete_validate")
    /\ UNCHANGED <<db, now, lock, local, todo, pend>>

\* second loop: the items and their products' stock are read by one query
complete_validate(w) ==
    LET bad == insufficient(ItemsOf(items, args[w].order), stock) IN
    /\ pc[w] = "complete_validate"
    /\ IF bad # <<>>
       THEN Return(w, [Response(400, "Insufficient stock for some products.") EXCEPT !.items = bad])
       ELSE Goto(w, "complete_query") /\ UNCHANGED <<lock, local, todo, pend>>
    /\ UNCHANGED <<db, now>>

\* third loop: its query
complete_query(w) ==
    /\ pc[w] = "complete_query"
    /\ todo' = [todo EXCEPT ![w] = ItemsOf(items, args[w].order)]
    /\ IF ItemsOf(items, args[w].order) = <<>>
       THEN Goto(w, "complete_save")
       ELSE Goto(w, "complete_reserve")
    /\ UNCHANGED <<db, now, lock, local, pend>>

\* third loop: one iteration.  The UPDATE takes the product's row lock and
\* waits while another worker's transaction holds it.
complete_reserve(w) ==
    LET item == Head(todo[w]) IN
    /\ pc[w] = "complete_reserve"
    /\ lock_free(lock, w, item.product)
    /\ lock' = [lock EXCEPT ![item.product] = w]
    /\ pend' = [pend EXCEPT ![w] =
                    Append(@, Movement(item.product, item.quantity, "salida", "venta", now))]
    /\ todo' = [todo EXCEPT ![w] = Tail(@)]
    /\ IF Tail(todo[w]) = <<>>
       THEN Goto(w, "complete_save")
       ELSE Goto(w, "complete_reserve")
    /\ UNCHANGED <<db, now, local>>

\* order.save(update_fields=["status", "last_change_at", "last_change_type"])
\* and the commit of the transaction
complete_save(w) ==
    /\ pc[w] = "complete_save"
    /\ stock' = apply_stock(stock, pend[w])
    /\ movements' = movements \o pend[w]
    /\ orders' = Touch([orders EXCEPT ![args[w].order].status = COMPLETED],
                       args[w].order, CHANGE_COMPLETED, now)
    /\ now' = now + 1
    /\ Return(w, Response(200, "OK"))
    /\ UNCHANGED <<price, items, item_seq>>

\* ------------------------------------------------------------------ cancel
\* Variant: the handler does not look at the order's status.
cancel_get_unchecked(w) ==
    /\ pc[w] = "cancel"
    /\ Goto(w, "cancel_save")
    /\ UNCHANGED <<db, now, lock, local, todo, pend>>

\* get_object() and the two status checks
cancel_get(w) ==
    /\ pc[w] = "cancel"
    /\ IF orders[args[w].order].status = COMPLETED
       THEN Return(w, Response(400, "Completed orders cannot be canceled."))
       ELSE IF orders[args[w].order].status = CANCELED
       THEN Return(w, Response(400, "Order is already canceled."))
       ELSE Goto(w, "cancel_save") /\ UNCHANGED <<lock, local, todo, pend>>
    /\ UNCHANGED <<db, now>>

\* Variant: canceling returns the units of the order's items to the stock.
cancel_save_restock(w) ==
    /\ pc[w] = "cancel_save"
    /\ stock' = [p \in Products |->
                    stock[p] + SumQuantity(ItemsFor(items, args[w].order, p))]
    /\ orders' = Touch([orders EXCEPT ![args[w].order].status = CANCELED],
                       args[w].order, CHANGE_CANCELED, now)
    /\ now' = now + 1
    /\ Return(w, Response(200, "OK"))
    /\ UNCHANGED <<price, items, item_seq, movements>>

\* order.save(update_fields=["status", "last_change_at", "last_change_type"])
cancel_save(w) ==
    /\ pc[w] = "cancel_save"
    /\ orders' = Touch([orders EXCEPT ![args[w].order].status = CANCELED],
                       args[w].order, CHANGE_CANCELED, now)
    /\ now' = now + 1
    /\ Return(w, Response(200, "OK"))
    /\ UNCHANGED <<stock, price, items, item_seq, movements>>

\* ----------------------------------------------------------------- destroy
destroy_update_fields == {"deleted_at", "status", "last_change_at", "last_change_type"}

\* get_object(), assignments to the instance in memory, and
\* order.save(update_fields=[...]): Order declares no deleted_at field, so
\* save() raises ValueError before it writes; the request ends in a 500.
destroy(w) ==
    /\ pc[w] = "destroy"
    /\ IF destroy_update_fields \subseteq OrderFields
       THEN /\ orders' = Touch([orders EXCEPT ![args[w].order].status =
                                    IF @ \in {CANCELED, COMPLETED} THEN @ ELSE CANCELED],
                               args[w].order, CHANGE_DELETE, now)
            /\ now' = now + 1
            /\ Return(w, Response(204, ""))
       ELSE /\ Return(w, Response(500, "ValueError"))
            /\ UNCHANGED <<orders, now>>
    /\ UNCHANGED <<stock, price, items, item_seq, movements>>

\* ---------------------------------------------------------- perform_update
\* serializer.save() writes the request's fields (none of them modelled here),
\* then the two audit fields are saved.
perform_update(w) ==
    /\ pc[w] = "perform_update"
    /\ orders' = Touch(orders, args[w].order, CHANGE_UPDATE, now)
    /\ now' = now + 1
    /\ Return(w, Response(200, "OK"))
    /\ UNCHANGED <<stock, price, items, item_seq, movements>>

\* -------------------------------------------------------------------- Next
Step(w) ==
    \/ complete_get(w)
    \/ complete_applied(w)
    \/ complete_validate(w)
    \/ complete_query(w)
    \/ complete_reserve(w)
    \/ complete_save(w)
    \/ add_item_get(w)
    \/ add_item_lock(w)
    \/ add_item_select(w)
    \/ add_item_write(w)
    \/ remove_item_get(w)
    \/ remove_item_lock(w)
    \/ remove_item_select(w)
    \/ remove_item_write(w)
    \/ cancel_get(w)
    \/ cancel_save(w)
    \/ destroy(w)
    \/ perform_update(w)

\* Requests are served concurrently: a worker starts its next request
\* whatever the other workers are doing.
Next == \E w \in Procs : Start(w) \/ Step(w)

Spec == Init /\ [][Next]_vars

\* Requests are served one at a time: a request starts when no other is in
\* flight.
StartAlone(w) == (\A v \in Procs : pc[v] = "idle") /\ Start(w)

NextSeq == \E w \in Procs : StartAlone(w) \/ Step(w)

SpecSeq == Init /\ [][NextSeq]_vars

\* Requests served concurrently on two orders sharing their products.
SpecCross == InitCross /\ [][Next]_vars

\* Requests served one at a time on a database whose products were sold
\* before the orders were created.
SpecSold == InitSold /\ [][NextSeq]_vars

\* ------------------------------------------------------------ properties
\* Worker w takes the last step of a request of handler op: the unprimed state
\* is the one the step reads, the primed state the one the request leaves.
Finishing(w, op) == args[w].op = op /\ pc[w] # "idle" /\ pc'[w] = "idle"

\* Worker w executes the statement at label.
At(w, label) == pc[w] = label /\ pc'[w] # label

\* the Outflow/"sale" movements recorded for a product
SaleCount(mvs, p) ==
    Cardinality({i \in 1..Len(mvs) : /\ mvs[i].product = p
                                     /\ mvs[i].movement_type = "salida"
                                     /\ mvs[i].reason = "venta"})

\* the requests of a handler that ended with a status code
Answered(op, code) ==
    {k \in 1..Len(log) : log[k].request.op = op /\ log[k].response.code = code}

\* Some item of order o has no Outflow/"sale" movement for its product with a
\* timestamp >= the order's created_at.
Unapplied(o) ==
    \E i \in 1..Len(items) :
        /\ items[i].order = o
        /\ ~\E k \in 1..Len(movements) :
                /\ movements[k].product = items[i].product
                /\ movements[k].movement_type = "salida"
                /\ movements[k].reason = "venta"
                /\ movements[k].timestamp >= orders[o].created_at

\* the items of order o whose quantity is above their product's stock
Short(o) == {i \in 1..Len(items) : items[i].order = o /\ items[i].quantity > stock[items[i].product]}

\* C1: in every reachable state, whatever AddItem and RemoveItem requests
\* have run (one after the other or concurrently), every order's total equals
\* the sum over its current items of quantity x price.
C1_TotalIsSumOfLines ==
    \A o \in Orders : orders[o].total = SumLines(ItemsOf(items, o))

\* An AddItem and a RemoveItem on the same order have both succeeded and the
\* order still holds items.
C1_Witness ==
    \E i \in Answered("add_item", 200), j \in Answered("remove_item", 200) :
        /\ log[i].request.order = log[j].request.order
        /\ ItemsOf(items, log[i].request.order) # <<>>

\* C2 (as stated): served alone, Complete on a Pending order whose items
\* (A, n) all have A.stock >= n decreases A.stock by n, appends exactly one
\* Outflow/"sale" movement for A and leaves the order Completed/Completed.
C2_CompleteDeductsEveryItem ==
    [][\A w \in Procs :
        LET o == args[w].order
            its == ItemsOf(items, o)
        IN (Finishing(w, "complete") /\ orders[o].status = PENDING /\ Short(o) = {}) =>
            /\ \A i \in 1..Len(its) :
                /\ stock'[its[i].product] = stock[its[i].product] - its[i].quantity
                /\ SaleCount(movements', its[i].product)
                        = SaleCount(movements, its[i].product) + 1
            /\ orders'[o].status = COMPLETED
            /\ orders'[o].last_change_type = CHANGE_COMPLETED]_vars

\* C2 (amended): served alone, Complete on a Pending order in which some item
\* has no Outflow/"sale" movement since the order's creation and every item
\* has enough stock decreases the stock of every item's product by the item's
\* quantity, appends exactly one Outflow/"sale" movement per item and leaves
\* the order Completed/Completed; when every item has such a movement it
\* leaves stock and movements alone and leaves the order Completed/Completed.
C2_CompleteDeductsUnlessApplied ==
    [][\A w \in Procs :
        LET o == args[w].order
            its == ItemsOf(items, o)
            applied == ~Unapplied(o)
        IN (Finishing(w, "complete") /\ orders[o].status = PENDING) =>
            /\ (~applied /\ Short(o) = {}) =>
                /\ \A i \in 1..Len(its) :
                    /\ stock'[its[i].product] = stock[its[i].product] - its[i].quantity
                    /\ SaleCount(movements', its[i].product)
                            = SaleCount(movements, its[i].product) + 1
                /\ Len(movements') = Len(movements) + Len(its)
                /\ orders'[o].status = COMPLETED
                /\ orders'[o].last_change_type = CHANGE_COMPLETED
            /\ applied =>
                /\ stock' = stock
                /\ movements' = movements
                /\ orders'[o].status = COMPLETED
                /\ orders'[o].last_change_type = CHANGE_COMPLETED]_vars

\* A Complete has succeeded on an order with an item that had no movement: the
\* stock is down by the item's quantity and the movement is in the log.
C2_Witness ==
    \E k \in Answered("complete", 200) :
        LET its == ItemsOf(items, log[k].request.order) IN
        /\ its # <<>>
        /\ Len(movements) = Len(its)
        /\ \A i \in 1..Len(its) :
            /\ stock[its[i].product] = initial.stock[its[i].product] - its[i].quantity
            /\ movements[i] = Movement(its[i].product, its[i].quantity, "salida", "venta",
                                       movements[i].timestamp)
        /\ orders[log[k].request.order].status = COMPLETED

\* C3: Complete on an order that is already Completed answers 400 "Order is
\* already completed." and changes no stock, no movement, no item and no field
\* of the order.
C3_CompleteOnCompleted ==
    [][\A w \in Procs :
        (At(w, "complete") /\ orders[args[w].order].status = COMPLETED) =>
            /\ pc'[w] = "idle"
            /\ resp'[w] = Response(400, "Order is already completed.")
            /\ UNCHANGED <<stock, movements, items, orders>>]_vars

\* A second Complete on a Completed order has been refused.
C3_Witness ==
    \E k \in Answered("complete", 400) :
        /\ log[k].response.detail = "Order is already completed."
        /\ orders[log[k].request.order].status = COMPLETED
        /\ \E j \in Answered("complete", 200) :
            j < k /\ log[j].request.order = log[k].request.order

\* C4 (as stated): served alone, Complete on a Pending order in which some
\* item's quantity is above its product's stock answers 400 "Insufficient
\* stock", lists exactly those items with requested quantity and available
\* stock, and leaves every stock, the movements and the order's status alone.
C4_ShortOrderAlwaysRefused ==
    [][\A w \in Procs :
        LET o == args[w].order IN
        (Finishing(w, "complete") /\ orders[o].status = PENDING /\ Short(o) # {}) =>
            /\ resp'[w].code = 400
            /\ resp'[w].detail = "Insufficient stock for some products."
            /\ Len(resp'[w].items) = Cardinality(Short(o))
            /\ {resp'[w].items[j] : j \in 1..Len(resp'[w].items)}
                = {[product_id |-> items[i].product, requested |-> items[i].quantity,
                    available |-> stock[items[i].product]] : i \in Short(o)}
            /\ UNCHANGED <<stock, movements, items>>
            /\ orders'[o].status = orders[o].status]_vars

\* C4 (amended): the same, for an order in which, moreover, some item has no
\* Outflow/"sale" movement since the order's creation.
C4_ShortUnappliedOrderRefused ==
    [][\A w \in Procs :
        LET o == args[w].order IN
        (Finishing(w, "complete") /\ orders[o].status = PENDING /\ Short(o) # {}
                /\ Unapplied(o)) =>
            /\ resp'[w].code = 400
            /\ resp'[w].detail = "Insufficient stock for some products."
            /\ Len(resp'[w].items) = Cardinality(Short(o))
            /\ {resp'[w].items[j] : j \in 1..Len(resp'[w].items)}
                = {[product_id |-> items[i].product, requested |-> items[i].quantity,
                    available |-> stock[items[i].product]] : i \in Short(o)}
            /\ UNCHANGED <<stock, movements, items>>
            /\ orders'[o].status = orders[o].status]_vars

\* A Complete has been refused for an order with one item short of stock and
\* one item with enough stock; nothing has been deducted.
C4_Witness ==
    \E k \in Answered("complete", 400) :
        LET o == log[k].request.order IN
        /\ Len(log[k].response.items) = 1
        /\ Cardinality(Short(o)) = 1
        /\ Len(ItemsOf(items, o)) = 2
        /\ orders[o].status = PENDING
        /\ stock = initial.stock

\* C5: when the only two requests so far are AddItem requests on the same
\* (order, product) pair, served in any interleaving, and both have succeeded,
\* the pair has exactly one item, its quantity is up by q1 + q2, the
\* product's stock is down by q1 + q2 and the order's total is up by
\* (q1 + q2) x the unit price (the item's snapshot price, or the product's
\* price when the item is new).
C5_ConcurrentAddsBothCount ==
    (/\ nreq = 2 /\ Len(log) = 2
     /\ \A k \in {1, 2} : log[k].request.op = "add_item" /\ log[k].response.code = 200
     /\ log[1].request.order = log[2].request.order
     /\ log[1].request.product = log[2].request.product) =>
        LET o == log[1].request.order
            p == log[1].request.product
            q == log[1].request.quantity + log[2].request.quantity
            before == ItemsFor(initial.items, o, p)
            after == ItemsFor(items, o, p)
            unit == IF before # <<>> THEN before[1].price ELSE price[p]
        IN /\ Len(after) = 1
           /\ after[1].quantity = SumQuantity(before) + q
           /\ after[1].price = unit
           /\ stock[p] = initial.stock[p] - q
           /\ orders[o].total = initial.orders[o].total + q * unit

\* Two AddItem requests on one pair, served by different workers (the second
\* started while the first was in flight), have both succeeded.
C5_Witness ==
    /\ nreq = 2 /\ Len(log) = 2
    /\ \A k \in {1, 2} : log[k].request.op = "add_item" /\ log[k].response.code = 200
    /\ log[1].request.order = log[2].request.order
    /\ log[1].request.product = log[2].request.product
    /\ log[1].worker # log[2].worker

\* C6: served one after the other, with nothing in between, a successful
\* AddItem(o, p, q) followed by RemoveItem(o, p, q) succeeds and returns every
\* stock, the order's total and the pair's item (its quantity and price, or its
\* absence) to what they were before the AddItem.
C6_AddThenRemoveRestores ==
    (/\ nreq = 2 /\ Len(log) = 2
     /\ log[1].request.op = "add_item" /\ log[1].response.code = 200
     /\ log[2].request = [log[1].request EXCEPT !.op = "remove_item"]) =>
        LET o == log[1].request.order
            p == log[1].request.product
            before == ItemsFor(initial.items, o, p)
            after == ItemsFor(items, o, p)
        IN /\ log[2].response.code = 200
           /\ stock = initial.stock
           /\ orders[o].total = initial.orders[o].total
           /\ Len(after) = Len(before)
           /\ \A i \in 1..Len(after) :
                after[i].quantity = before[i].quantity /\ after[i].price = before[i].price

\* An AddItem on a pair that had an item, then a RemoveItem of the same
\* quantity, have both been served.
C6_Witness ==
    /\ nreq = 2 /\ Len(log) = 2
    /\ log[1].request.op = "add_item" /\ log[1].response.code = 200
    /\ log[2].request = [log[1].request EXCEPT !.op = "remove_item"]
    /\ ItemsFor(initial.items, log[1].request.order, log[1].request.product) # <<>>

\* C7: the commit of RemoveItem with requested quantity q on an item holding h
\* units removes r = min(q, h) units: the stock goes up by r, the total goes
\* down by r x the item's price, one Inflow movement of quantity r is
\* appended, and the item is deleted when r = h and keeps h - r otherwise.
C7_RemoveTakesMin ==
    [][\A w \in Procs :
        At(w, "remove_write") =>
            LET o == args[w].order
                p == args[w].product
                q == args[w].quantity
                row == ItemsFor(items, o, p)[1]
                h == row.quantity
                r == IF q < h THEN q ELSE h
                after == ItemsFor(items', o, p)
            IN /\ stock' = [stock EXCEPT ![p] = @ + r]
               /\ orders'[o].total = orders[o].total - r * row.price
               /\ Len(movements') = Len(movements) + 1
               /\ SubSeq(movements', 1, Len(movements)) = movements
               /\ LET m == movements'[Len(movements')] IN
                    /\ m.product = p /\ m.quantity = r
                    /\ m.movement_type = "entrada" /\ m.reason = "ajuste"
               /\ IF r = h
                  THEN after = <<>>
                  ELSE after = <<[row EXCEPT !.quantity = h - r]>>
               /\ resp'[w].code = 200]_vars

\* A RemoveItem that asked for more than the item held has removed what the
\* item held and deleted it.
C7_Witness ==
    \E k \in Answered("remove_item", 200) :
        LET r == log[k].request
            before == ItemsFor(initial.items, r.order, r.product)
        IN /\ Len(log) = 1
           /\ before # <<>>
           /\ before[1].quantity < r.quantity
           /\ ItemsFor(items, r.order, r.product) = <<>>
           /\ stock[r.product] = initial.stock[r.product] + before[1].quantity

\* C8: Cancel on a Completed order answers 400 "Completed orders cannot be
\* canceled." and Cancel on a Canceled order answers 400 "Order is already
\* canceled.", both leaving the order row alone; Cancel on a Pending order
\* goes on to save status Canceled and last_change_type Canceled.
C8_CancelTransitions ==
    [][\A w \in Procs :
        LET o == args[w].order IN
        /\ (At(w, "cancel") /\ orders[o].status = COMPLETED) =>
            /\ pc'[w] = "idle"
            /\ resp'[w] = Response(400, "Completed orders cannot be canceled.")
            /\ orders' = orders
        /\ (At(w, "cancel") /\ orders[o].status = CANCELED) =>
            /\ pc'[w] = "idle"
            /\ resp'[w] = Response(400, "Order is already canceled.")
            /\ orders' = orders
        /\ (At(w, "cancel") /\ orders[o].status = PENDING) =>
            /\ pc'[w] = "cancel_save"
            /\ orders' = orders
        /\ At(w, "cancel_save") =>
            /\ pc'[w] = "idle"
            /\ resp'[w].code = 200
            /\ orders'[o].status = CANCELED
            /\ orders'[o].last_change_type = CHANGE_CANCELED]_vars

\* A Cancel has succeeded on a Pending order and a second Cancel on it has
\* been refused as already canceled.
C8_Witness ==
    /\ Len(log) = 2
    /\ log[1].request.op = "cancel" /\ log[1].response.code = 200
    /\ log[2].request = log[1].request
    /\ log[2].response = Response(400, "Order is already canceled.")
    /\ orders[log[1].request.order].status = CANCELED
    /\ orders[log[1].request.order].last_change_type = CHANGE_CANCELED

\* C9: once an order's status is Completed or Canceled, no step changes it.
C9_ClosedStatusNeverChanges ==
    [][\A o \in Orders : Closed(o) => orders'[o].status = orders[o].status]_vars

\* C10: once an order's status is Completed or Canceled, no step changes its
\* items or its total.
C10_ClosedOrderNeverModified ==
    [][\A o \in Orders :
        Closed(o) => /\ ItemsOf(items', o) = ItemsOf(items, o)
                     /\ orders'[o].total = orders[o].total]_vars

\* C11: in every reachable state, under any interleaving of AddItem,
\* RemoveItem and Complete requests touching the same product, every product's
\* stock is >= 0.
C11_StockNeverNegative == \A p \in Products : stock[p] >= 0

\* C12: when the only two requests so far are Complete requests on the same
\* Pending order, served in any interleaving, each item's quantity has been
\* deducted from its product's stock at most once in total and at most one
\* Outflow movement has been appended per item.
C12_ConcurrentCompletesDeductOnce ==
    (/\ nreq = 2 /\ Len(log) = 2
     /\ \A k \in {1, 2} : log[k].request.op = "complete"
     /\ log[1].request.order = log[2].request.order
     /\ initial.orders[log[1].request.order].status = PENDING) =>
        LET its == ItemsOf(items, log[1].request.order) IN
        \A i \in 1..Len(its) :
            /\ stock[its[i].product] >= initial.stock[its[i].product] - its[i].quantity
            /\ SaleCount(movements, its[i].product) <= 1

C14_SkipOnlyOwnDeduction ==
    [][\A w \in Procs :
        LET o == args[w].order
            its == ItemsOf(items, o)
        IN (/\ Finishing(w, "complete") /\ orders[o].status = PENDING
            /\ its # <<>> /\ resp'[w].code = 200 /\ stock' = stock) =>
                \A i \in 1..Len(its) :
                    \E k \in Answered("add_item", 200) :
                        /\ log[k].request.order = o
                        /\ log[k].request.product = its[i].product]_vars

\* C15: in every reachable state an order's status and last_change_type
\* agree: Pending goes with Created or Update, Completed with Completed or
\* Delete, Canceled with Canceled or Delete.
C15_StatusAgreesWithChangeType ==
    \A o \in Orders :
        /\ orders[o].status = PENDING =>
                orders[o].last_change_type \in {CHANGE_CREATED, CHANGE_UPDATE}
        /\ orders[o].status = COMPLETED =>
                orders[o].last_change_type \in {CHANGE_COMPLETED, CHANGE_DELETE}
        /\ orders[o].status = CANCELED =>
                orders[o].last_change_type \in {CHANGE_CANCELED, CHANGE_DELETE}

\* C16: the statements of Cancel change nothing but the status,
\* last_change_at and last_change_type of the order canceled: every stock,
\* the movements, the items, every total and every other order stay as they
\* are, so the units AddItem took for the order are not returned.
C16_CancelChangesOnlyStatusAndAudit ==
    [][\A w \in Procs :
        (At(w, "cancel") \/ At(w, "cancel_save")) =>
            /\ UNCHANGED <<stock, price, movements, items, item_seq>>
            /\ orders' = [orders EXCEPT
                    ![args[w].order].status = orders'[args[w].order].status,
                    ![args[w].order].last_change_at = orders'[args[w].order].last_change_at,
                    ![args[w].order].last_change_type = orders'[args[w].order].last_change_type]]_vars

\* An AddItem and then a Cancel have succeeded on an order: the order is
\* Canceled and the units added are still out of the stock.
C16_Witness ==
    /\ Len(log) = 2
    /\ log[1].request.op = "add_item" /\ log[1].response.code = 200
    /\ log[2].request.op = "cancel" /\ log[2].response.code = 200
    /\ log[2].request.order = log[1].request.order
    /\ orders[log[1].request.order].status = CANCELED
    /\ stock[log[1].request.product]
            = initial.stock[log[1].request.product] - log[1].request.quantity
    /\ ItemsFor(items, log[1].request.order, log[1].request.product) # <<>>

\* C17: the commit of AddItem(o, p, qty) on a pair that has an item raises
\* the item's quantity by qty, leaves its price as it is and raises the
\* order's total by qty x that price, whatever the product's current price;
\* on a pair without item it creates one item of quantity qty at the
\* product's current price and raises the total by qty x that price.
C17_AddItemKeepsSnapshotPrice ==
    [][\A w \in Procs :
        At(w, "add_write") =>
            LET o == args[w].order
                p == args[w].product
                qty == args[w].quantity
                before == ItemsFor(items, o, p)
                after == ItemsFor(items', o, p)
            IN IF before # <<>>
               THEN /\ after = <<[before[1] EXCEPT !.quantity = @ + qty]>>
                    /\ orders'[o].total = orders[o].total + qty * before[1].price
               ELSE /\ Len(after) = 1
                    /\ after[1].quantity = qty
                    /\ after[1].price = price[p]
                    /\ orders'[o].total = orders[o].total + qty * price[p]]_vars

\* An AddItem has succeeded on a pair whose item was snapshotted at a price
\* other than the product's current price, and another on a pair without item.
C17_Witness ==
    /\ Len(log) = 2
    /\ \A k \in {1, 2} : log[k].request.op = "add_item" /\ log[k].response.code = 200
    /\ LET had == ItemsFor(initial.items, log[1].request.order, log[1].request.product)
           got == ItemsFor(items, log[1].request.order, log[1].request.product)
       IN /\ had # <<>> /\ had[1].price # price[log[1].request.product]
          /\ got = <<[had[1] EXCEPT !.quantity = @ + log[1].request.quantity]>>
    /\ ItemsFor(initial.items, log[2].request.order, log[2].request.product) = <<>>
    /\ ItemsFor(items, log[2].request.order, log[2].request.product) # <<>>

\* the product whose row lock the next statement of worker w needs ("" when
\* it needs none)
Needs(w) ==
    IF pc[w] \in {"add_lock", "remove_lock"} THEN args[w].product
    ELSE IF pc[w] = "complete_reserve" THEN Head(todo[w]).product
    ELSE ""

\* worker w waits for a row lock that worker v holds
WaitsFor(w, v) == w # v /\ Needs(w) # "" /\ lock[Needs(w)] = v

\* C18: under any interleaving of Complete, AddItem and RemoveItem
\* transactions, on the same order or on orders sharing products, no two
\* in-flight transactions wait for each other's row locks (with two workers,
\* the only cycle there can be), so no started operation is kept from ending.
C18_NoLockWaitCycle == \A w, v \in Procs : ~(WaitsFor(w, v) /\ WaitsFor(v, w))

\* C19: in every reachable state, the requests carrying quantities > 0, every
\* stored OrderItem has quantity > 0 and no two OrderItems have the same
\* (order, product) pair, whatever AddItem and RemoveItem requests have run on
\* the pair, one after the other or concurrently.
C19_ItemsPositiveAndUnique ==
    /\ \A i \in 1..Len(items) : items[i].quantity > 0
    /\ \A i, j \in 1..Len(items) :
        (items[i].order = items[j].order /\ items[i].product = items[j].product) => i = j

\* An AddItem and a RemoveItem on one pair, served by different workers (the
\* second started while the first was in flight), have both succeeded and the
\* pair still has its item.
C19_Witness ==
    /\ Len(log) = 2
    /\ {log[1].request.op, log[2].request.op} = {"add_item", "remove_item"}
    /\ \A k \in {1, 2} : log[k].response.code = 200
    /\ log[1].request.order = log[2].request.order
    /\ log[1].request.product = log[2].request.product
    /\ log[1].worker # log[2].worker
    /\ Len(ItemsFor(items, log[1].request.order, log[1].request.product)) = 1

\* the units of product p all the items hold, over all orders
Held(p) == SumQuantity(SelectSeq(items, LAMBDA r : r.product = p))

\* C20: when the orders start without items, so that every item was created
\* by AddItem, then in every state reached by AddItem, RemoveItem, Complete,
\* Cancel and Delete requests each product's stock plus the units the items
\* of all orders hold of it equals its initial stock: Complete does not
\* deduct again what AddItem deducted.
C20_StockConserved ==
    initial.items = <<>> => \A p \in Products : stock[p] + Held(p) = initial.stock[p]

\* Starting without items, an AddItem and then a Complete have succeeded on
\* an order: the units added are out of the stock once.
C20_Witness ==
    /\ initial.items = <<>>
    /\ Len(log) = 2
    /\ log[1].request.op = "add_item" /\ log[1].response.code = 200
    /\ log[2].request.op = "complete" /\ log[2].response.code = 200
    /\ log[2].request.order = log[1].request.order
    /\ orders[log[1].request.order].status = COMPLETED
    /\ Held(log[1].request.product) = log[1].request.quantity
    /\ stock[log[1].request.product]
            = initial.stock[log[1].request.product] - log[1].request.quantity

====
